---- MODULE Spec2Model ----
(***************************************************************************)
(* Payout orchestration of crates/router/src/core/payouts.rs.              *)
(*                                                                         *)
(* One payout id is followed through its life: the persisted Payouts and   *)
(* PayoutAttempt rows, the payout-link and process-tracker tables, and the *)
(* in-memory PayoutData aggregate of the request being served.  A request  *)
(* (create, confirm, update, retrieve, cancel, fulfill) is one action up   *)
(* to the point where it enters payouts_core; the orchestration pass       *)
(* (call_connector_payout) is then one action per sub-flow, in the order   *)
(* the function awaits them.  Connector answers and storage faults are     *)
(* inputs drawn with \E.                                                   *)
(***************************************************************************)
EXTENDS Integers, Sequences, FiniteSets, TLC

VARIABLES
    db_payouts,         \* persisted storage::Payouts row of the payout id
    db_payout_attempt,  \* persisted storage::PayoutAttempt row (current attempt)
    db_payout_link,     \* PayoutLink rows of the payout id: how many, and link_status
    process_tracker,    \* number of process-tracker tasks inserted
    payout_data,        \* PayoutData aggregate of the request in flight
    connector_data,     \* connector chosen for the pass in flight
    connector_call_type, \* ConnectorCallType resolved for the pass in flight:
                        \* kept when the request is rejected for it, and
                        \* through the pass when a GSM retry that reads it is
                        \* configured
    gsm,                \* retries make_connector_decision handed over in the
                        \* last step taken, in order
    pc,                 \* position of the request in flight
    op,                 \* which core function the request in flight entered
    result,             \* outcome of the last finished request
    calls,              \* connector operations issued by the request in flight
    writes,             \* storage writes of the last step taken, in order; a
                        \* write that failed is logged as <table>_error
    requests,           \* number of requests received so far
    answer,             \* answer to the connector call of the last step taken
    eligibility_answer, \* payout_eligible of the PoEligibility answer of the pass
    req_force_sync,     \* force_sync of the retrieve request last received,
                        \* None after any other request
    conf,               \* connector capabilities, state.conf.payouts and the
                        \* merchant's routing and GSM retry configuration
    db_faulty           \* whether storage writes may fail in this behaviour

vars == <<db_payouts, db_payout_attempt, db_payout_link, process_tracker,
          payout_data, connector_data, connector_call_type, gsm, pc, op,
          result, calls, writes, requests, answer, eligibility_answer,
          req_force_sync, conf, db_faulty>>

----------------------------------------------------------------------------
(* Bounds *)

\* cap on the process-tracker tasks inserted in one behaviour
MaxTasks == 1

\* longest connector list a Retryable call type carries
MaxConnectors == 2

\* number of requests followed in one behaviour
MaxRequests == 2

----------------------------------------------------------------------------
(* Option<T> is the empty set (None) or a singleton (Some(x)) *)

None == {}

Some(x) == {x}

Option(S) == {None} \cup {Some(x) : x \in S}

is_some(o) == o # None

unwrap_or(o, d) == IF o = None THEN d ELSE CHOOSE x \in o : TRUE

----------------------------------------------------------------------------
(* PayoutStatus and the status classes of core/payouts/helpers.rs *)

PayoutStatus ==
    {"RequiresPayoutMethodData", "RequiresConfirmation", "RequiresCreation",
     "RequiresVendorAccountCreation", "RequiresFulfillment", "Pending",
     "Success", "Failed", "Cancelled", "Ineligible"}

NotFound == "NotFound"

is_payout_terminal_state(status) ==
    status \in {"Success", "Failed", "Cancelled", "Ineligible"}

is_payout_err_state(status) ==
    status \in {"Failed", "Cancelled", "Ineligible"}

is_payout_initiated(status) ==
    status \notin {"RequiresPayoutMethodData", "RequiresConfirmation",
                   "RequiresCreation", "RequiresVendorAccountCreation"}

is_eligible_for_local_payout_cancellation(status) ==
    status \in {"RequiresCreation", "RequiresConfirmation",
                "RequiresPayoutMethodData"}

should_call_retrieve(status) == status = "Pending"

\* the statuses payouts_confirm_core passes as not allowed
\* the list of payouts_confirm_core with Failed left out: C7 fails on it
ConfirmNotAllowedStatuses_without_Failed ==
    {"Cancelled", "Success", "Pending", "Ineligible", "RequiresFulfillment",
     "RequiresVendorAccountCreation"}

ConfirmNotAllowedStatuses ==
    {"Cancelled", "Success", "Failed", "Pending", "Ineligible",
     "RequiresFulfillment", "RequiresVendorAccountCreation"}

validate_payout_status_against_not_allowed_statuses(status, not_allowed) ==
    status \notin not_allowed

\* the statuses in which complete_create_recipient and complete_create_payout act
CreationEligibleStatuses ==
    {"RequiresCreation", "RequiresConfirmation", "RequiresPayoutMethodData"}

----------------------------------------------------------------------------
(* Connectors and the answers of a connector call *)

Connectors == {"stripe", "adyen"}

NoConnector == "NoConnector"

\* execute_connector_processing_step: Ok(router_data) with response Ok(..) or
\* Err(ErrorResponse), or an Err that "?" propagates ("Abort")
ConnectorOk ==
    [kind : {"Ok"}, status : Option(PayoutStatus),
     payout_eligible : Option(BOOLEAN),
     should_add_next_step_to_process_tracker : BOOLEAN,
     error_code : {None}, error_message : {None}]

ConnectorErr ==
    [kind |-> "Err", status |-> None, payout_eligible |-> None,
     should_add_next_step_to_process_tracker |-> FALSE,
     error_code |-> None, error_message |-> None]

ConnectorAbort ==
    [kind |-> "Abort", status |-> None, payout_eligible |-> None,
     should_add_next_step_to_process_tracker |-> FALSE,
     error_code |-> None, error_message |-> None]

\* no connector call was made
NoAnswer ==
    [kind |-> "None", status |-> None, payout_eligible |-> None,
     should_add_next_step_to_process_tracker |-> FALSE,
     error_code |-> None, error_message |-> None]

\* is_payout_quote_call_required of the connector, and the kind of the
\* PoQuote answer when it is
NoQuote == [required |-> FALSE, kind |-> "Ok"]

QuoteAnswers ==
    {NoQuote, [required |-> TRUE, kind |-> "Ok"],
     [required |-> TRUE, kind |-> "Err"], [required |-> TRUE, kind |-> "Abort"]}

\* answers of every operation but recipient creation carry no tracker flag
PayoutsResponses ==
    {r \in ConnectorOk : ~r.should_add_next_step_to_process_tracker}
        \cup {ConnectorErr, ConnectorAbort}

\* answers of PoSync: PayoutsResponseData carries error_code and error_message
\* of its own, which update_retrieve_payout_tracker stores with an error status
SyncResponses ==
    PayoutsResponses
        \cup {[r EXCEPT !.error_code = Some("connector_code"),
                        !.error_message = Some("connector_message")] :
                 r \in {x \in ConnectorOk :
                           /\ ~x.should_add_next_step_to_process_tracker
                           /\ x.status \in {Some("Failed"), Some("Cancelled"),
                                            Some("Ineligible")}}}

\* answers of PoRecipient; the tracker flag is capped by MaxTasks
RecipientResponses ==
    {r \in ConnectorOk :
        r.should_add_next_step_to_process_tracker => process_tracker < MaxTasks}
        \cup {ConnectorErr, ConnectorAbort}

\* which storage write of the step fails, if any
FailPoints ==
    IF db_faulty THEN {"none", "process_tracker", "payout_attempt", "payouts"}
    ELSE {"none"}

----------------------------------------------------------------------------
(* Rows *)

\* confirm holds whether the stored Option<bool> is Some(true), the one thing
\* the code asks of it
NoPayouts ==
    [status |-> NotFound, auto_fulfill |-> FALSE, confirm |-> FALSE,
     payout_link_id |-> FALSE]

NoPayoutAttempt ==
    [status |-> NotFound, is_eligible |-> None, connector |-> NoConnector,
     error_code |-> None, error_message |-> None, payout_token |-> FALSE]

NoPayoutData ==
    [payouts |-> NoPayouts, payout_attempt |-> NoPayoutAttempt,
     payout_method_data |-> FALSE, should_terminate |-> FALSE,
     payout_link |-> FALSE]

\* PayoutAttemptUpdate::StatusUpdate applied to a row
StatusUpdate(row, status, error_code, error_message, is_eligible) ==
    [row EXCEPT !.status = status, !.error_code = error_code,
                !.error_message = error_message, !.is_eligible = is_eligible]

\* PayoutAttemptUpdate::UpdateRouting applied to a row
UpdateRouting(row, connector) == [row EXCEPT !.connector = connector]

----------------------------------------------------------------------------
(* The state a core function works on, threaded through the pure operators *)
(* below the way "?" threads a RouterResult: res is "Ok" until one step    *)
(* fails, and a failed world is returned unchanged by every later step.    *)

World ==
    [a |-> db_payout_attempt, p |-> db_payouts, pd |-> payout_data,
     cd |-> connector_data, ct |-> connector_call_type, gsm |-> <<>>,
     calls |-> calls, writes |-> <<>>,
     tasks |-> process_tracker, res |-> "Ok"]

\* db.update_payout_attempt(..).change_context(InternalServerError)?
update_payout_attempt(w, row, fail) ==
    IF fail = "payout_attempt"
    THEN [w EXCEPT !.res = "InternalServerError",
                   !.writes = Append(@, "payout_attempt_error")]
    ELSE [w EXCEPT !.a = row, !.pd.payout_attempt = row,
                   !.writes = Append(@, "payout_attempt")]

\* variant: a failed write of the payout row is logged and ignored
update_payout_ignoring_error(w, status, fail) ==
    IF fail = "payouts"
    THEN [w EXCEPT !.writes = Append(@, "payouts_error")]
    ELSE LET row == [w.p EXCEPT !.status = status]
         IN [w EXCEPT !.p = row, !.pd.payouts = row,
                      !.writes = Append(@, "payouts")]

\* db.update_payout(.., PayoutsUpdate::StatusUpdate { status }, ..)?
update_payout(w, status, fail) ==
    IF fail = "payouts"
    THEN [w EXCEPT !.res = "InternalServerError",
                   !.writes = Append(@, "payouts_error")]
    ELSE LET row == [w.p EXCEPT !.status = status]
         IN [w EXCEPT !.p = row, !.pd.payouts = row,
                      !.writes = Append(@, "payouts")]

\* variant: the payout row is written before the attempt row
update_payout_then_attempt(w, row, fail) ==
    LET w1 == update_payout(w, row.status, fail)
    IN IF w1.res # "Ok" THEN w1 ELSE update_payout_attempt(w1, row, fail)

\* the attempt write followed by the payout write of one status transition
update_attempt_then_payout(w, row, fail) ==
    LET w1 == update_payout_attempt(w, row, fail)
    IN IF w1.res # "Ok" THEN w1 ELSE update_payout(w1, row.status, fail)

\* services::execute_connector_processing_step(..).to_payout_failed_response()?
execute_connector_processing_step(w, flow, resp) ==
    LET w1 == [w EXCEPT !.calls = Append(@, flow)]
    IN IF resp.kind = "Abort" THEN [w1 EXCEPT !.res = "ConnectorCallFailed"]
       ELSE w1

\* helpers::make_payout_method_data: the data of the request, else the data
\* the stored payout token resolves to
make_payout_method_data(request_data, payout_token) ==
    request_data \/ payout_token

----------------------------------------------------------------------------
(* Sub-flows of a pass *)

check_payout_eligibility(w, resp, fail) ==
    LET w1 == execute_connector_processing_step(w, "PoEligibility", resp)
    IN IF w1.res # "Ok" THEN w1
       ELSE IF resp.kind = "Ok"
       THEN LET status == unwrap_or(resp.status, w1.pd.payout_attempt.status)
                w2 == update_attempt_then_payout(w1,
                          StatusUpdate(w1.a, status, None, None,
                                       resp.payout_eligible), fail)
            IN IF w2.res = "Ok" /\ is_payout_err_state(status)
               THEN [w2 EXCEPT !.res = "PayoutFailed"]
               ELSE w2
       ELSE update_attempt_then_payout(w1,
                StatusUpdate(w1.a, "Failed", Some("connector_code"),
                             Some("connector_message"), Some(FALSE)), fail)

\* variant: is_eligible of the attempt is not looked at
eligibility_required_again(w) ==
    /\ ~w.pd.should_terminate
    /\ conf.supports_payout_eligibility

\* the condition under which complete_payout_eligibility calls the connector
eligibility_required(w) ==
    /\ ~w.pd.should_terminate
    /\ w.pd.payout_attempt.is_eligible = None
    /\ conf.supports_payout_eligibility

complete_payout_eligibility(w, resp, fail) ==
    LET payout_attempt == w.pd.payout_attempt
        w1 == IF eligibility_required(w)
              THEN check_payout_eligibility(w, resp, fail)
              ELSE w
    IN IF w1.res # "Ok" THEN w1
       ELSE IF ~unwrap_or(payout_attempt.is_eligible, conf.payout_eligibility)
       THEN [w1 EXCEPT !.res = "PayoutFailed"]
       ELSE w1

\* db.insert_process(process_tracker_entry)
add_external_account_addition_task(w, fail) ==
    IF fail = "process_tracker"
    THEN [w EXCEPT !.res = "InternalServerError",
                   !.writes = Append(@, "process_tracker_error")]
    ELSE [w EXCEPT !.tasks = @ + 1]

\* variant: the status is written before the process-tracker task is inserted
create_recipient_status_first(w, should_call_connector, resp, fail) ==
    IF ~should_call_connector THEN w
    ELSE
    LET w1 == execute_connector_processing_step(w, "PoRecipient", resp)
    IN IF w1.res # "Ok" THEN w1
       ELSE IF resp.kind = "Ok"
       THEN IF resp.should_add_next_step_to_process_tracker
            THEN LET status == unwrap_or(resp.status,
                                         "RequiresVendorAccountCreation")
                     w2 == update_attempt_then_payout(w1,
                               StatusUpdate(w1.a, status, None, None,
                                            resp.payout_eligible), fail)
                     w3 == IF w2.res # "Ok" THEN w2
                           ELSE add_external_account_addition_task(w2, fail)
                 IN IF w3.res # "Ok" THEN w3
                    ELSE [w3 EXCEPT !.pd.should_terminate = TRUE]
            ELSE w1
       ELSE [w1 EXCEPT !.res = "PayoutFailed"]

create_recipient(w, should_call_connector, resp, fail) ==
    IF ~should_call_connector THEN w
    ELSE
    LET w1 == execute_connector_processing_step(w, "PoRecipient", resp)
    IN IF w1.res # "Ok" THEN w1
       ELSE IF resp.kind = "Ok"
       THEN IF resp.should_add_next_step_to_process_tracker
            THEN LET w2 == add_external_account_addition_task(w1, fail)
                     status == unwrap_or(resp.status,
                                         "RequiresVendorAccountCreation")
                     w3 == IF w2.res # "Ok" THEN w2
                           ELSE update_attempt_then_payout(w2,
                                    StatusUpdate(w2.a, status, None, None,
                                                 resp.payout_eligible), fail)
                 IN IF w3.res # "Ok" THEN w3
                    ELSE [w3 EXCEPT !.pd.should_terminate = TRUE]
            ELSE w1
       ELSE [w1 EXCEPT !.res = "PayoutFailed"]

\* variant: the status of the attempt is not looked at
recipient_required_in_any_status(w) ==
    /\ ~w.pd.should_terminate
    /\ conf.supports_create_recipient

\* the condition under which complete_create_recipient enters create_recipient
recipient_required(w) ==
    /\ ~w.pd.should_terminate
    /\ w.pd.payout_attempt.status \in CreationEligibleStatuses
    /\ conf.supports_create_recipient

complete_create_recipient(w, should_call_connector, resp, fail) ==
    IF recipient_required(w)
    THEN create_recipient(w, should_call_connector, resp, fail)
    ELSE w

create_recipient_disburse_account(w, resp, fail) ==
    LET w1 == execute_connector_processing_step(w, "PoRecipientAccount", resp)
    IN IF w1.res # "Ok" THEN w1
       ELSE IF resp.kind = "Ok"
       THEN LET status == unwrap_or(resp.status, w1.pd.payout_attempt.status)
            IN update_payout_attempt(w1,
                   StatusUpdate(w1.a, status, None, None,
                                resp.payout_eligible), fail)
       ELSE update_payout_attempt(w1,
                StatusUpdate(w1.a, "Failed", Some("connector_code"),
                             Some("connector_message"), None), fail)

\* variant: should_terminate is not looked at
disburse_account_required_after_terminate(w) ==
    /\ w.pd.payout_attempt.status = "RequiresVendorAccountCreation"
    /\ conf.supports_vendor_disburse_account_create_for_payout

\* the condition under which the disbursement account is created
disburse_account_required(w) ==
    /\ ~w.pd.should_terminate
    /\ w.pd.payout_attempt.status = "RequiresVendorAccountCreation"
    /\ conf.supports_vendor_disburse_account_create_for_payout

complete_create_recipient_disburse_account(w, resp, fail) ==
    IF disburse_account_required(w)
    THEN create_recipient_disburse_account(w, resp, fail)
    ELSE w

\* the PoQuote call made before PoCreate when the connector requires it
\* (quote.required); a quote answer of either kind lets create_payout go on
\* to PoCreate
complete_payout_quote_steps_if_required(w, quote) ==
    IF quote.required
    THEN execute_connector_processing_step(w, "PoQuote", quote)
    ELSE w

\* variant: a connector error response to PoCreate is answered by a second call
create_payout_calling_again(w, quote, resp, fail) ==
    LET w0 == complete_payout_quote_steps_if_required(w, quote)
        w1 == IF w0.res # "Ok" THEN w0
              ELSE execute_connector_processing_step(w0, "PoCreate", resp)
    IN IF w1.res # "Ok" THEN w1
       ELSE IF resp.kind = "Ok"
       THEN LET status == unwrap_or(resp.status, w1.pd.payout_attempt.status)
                w2 == update_attempt_then_payout(w1,
                          StatusUpdate(w1.a, status, None, None,
                                       resp.payout_eligible), fail)
            IN IF w2.res = "Ok" /\ is_payout_err_state(status)
               THEN [w2 EXCEPT !.res = "PayoutFailed"]
               ELSE w2
       ELSE update_attempt_then_payout(
                execute_connector_processing_step(w1, "PoCreate", resp),
                StatusUpdate(w1.a, "Failed", Some("connector_code"),
                             Some("connector_message"), None), fail)

create_payout(w, quote, resp, fail) ==
    LET w0 == complete_payout_quote_steps_if_required(w, quote)
        w1 == IF w0.res # "Ok" THEN w0
              ELSE execute_connector_processing_step(w0, "PoCreate", resp)
    IN IF w1.res # "Ok" THEN w1
       ELSE IF resp.kind = "Ok"
       THEN LET status == unwrap_or(resp.status, w1.pd.payout_attempt.status)
                w2 == update_attempt_then_payout(w1,
                          StatusUpdate(w1.a, status, None, None,
                                       resp.payout_eligible), fail)
            IN IF w2.res = "Ok" /\ is_payout_err_state(status)
               THEN [w2 EXCEPT !.res = "PayoutFailed"]
               ELSE w2
       ELSE update_attempt_then_payout(w1,
                StatusUpdate(w1.a, "Failed", Some("connector_code"),
                             Some("connector_message"), None), fail)

\* the condition under which complete_create_payout acts
creation_required(w) ==
    /\ ~w.pd.should_terminate
    /\ w.pd.payout_attempt.status \in CreationEligibleStatuses

\* complete_create_payout without the instant-payout branch: C9 fails on it
complete_create_payout_always_calls(w, quote, resp, fail) ==
    IF creation_required(w)
    THEN create_payout(w, quote, resp, fail)
    ELSE w

complete_create_payout(w, quote, resp, fail) ==
    IF creation_required(w)
    THEN IF conf.supports_instant_payout
         THEN update_attempt_then_payout(w,
                  StatusUpdate(w.a, "RequiresFulfillment", None, None, None),
                  fail)
         ELSE create_payout(w, quote, resp, fail)
    ELSE w

fulfill_payout(w, resp, fail) ==
    LET w1 == execute_connector_processing_step(w, "PoFulfill", resp)
    IN IF w1.res # "Ok" THEN w1
       ELSE IF resp.kind = "Ok"
       THEN LET status == unwrap_or(resp.status, w1.pd.payout_attempt.status)
                w2 == update_attempt_then_payout(
                          [w1 EXCEPT !.pd.payouts.status = status],
                          StatusUpdate(w1.a, status, None, None,
                                       resp.payout_eligible), fail)
            IN IF w2.res = "Ok" /\ is_payout_err_state(status)
               THEN [w2 EXCEPT !.res = "PayoutFailed"]
               ELSE w2
       ELSE update_attempt_then_payout(w1,
                StatusUpdate(w1.a, "Failed", Some("connector_code"),
                             Some("connector_message"), None), fail)

\* variant: payouts.auto_fulfill is not looked at
auto_fulfill_required_for_any_payout(w) ==
    w.pd.payout_attempt.status = "RequiresFulfillment"

\* the condition of the auto fulfillment flow of call_connector_payout
auto_fulfill_required(w) ==
    /\ w.pd.payouts.auto_fulfill
    /\ w.pd.payout_attempt.status = "RequiresFulfillment"

\* the last step of call_connector_payout
auto_fulfill(w, resp, fail) ==
    IF auto_fulfill_required(w)
    THEN fulfill_payout(w, resp, fail)
    ELSE w

cancel_payout(w, resp, fail) ==
    LET w1 == execute_connector_processing_step(w, "PoCancel", resp)
    IN IF w1.res # "Ok" THEN w1
       ELSE IF resp.kind = "Ok"
       THEN LET status == unwrap_or(resp.status, w1.pd.payout_attempt.status)
            IN update_attempt_then_payout(w1,
                   StatusUpdate(w1.a, status, None, None,
                                resp.payout_eligible), fail)
       ELSE update_attempt_then_payout(w1,
                StatusUpdate(w1.a, "Failed", Some("connector_code"),
                             Some("connector_message"), None), fail)

\* variant: a connector error answer to PoSync is persisted as Failed
update_retrieve_payout_tracker_persisting_error(w, resp, fail) ==
    IF resp.kind = "Ok"
    THEN LET status == unwrap_or(resp.status, w.pd.payout_attempt.status)
             err == is_payout_err_state(status)
         IN update_attempt_then_payout(w,
                StatusUpdate(w.a, status,
                             IF err THEN resp.error_code ELSE None,
                             IF err THEN resp.error_message ELSE None,
                             resp.payout_eligible), fail)
    ELSE update_attempt_then_payout(w,
             StatusUpdate(w.a, "Failed", Some("connector_code"),
                          Some("connector_message"), None), fail)

update_retrieve_payout_tracker(w, resp, fail) ==
    IF resp.kind = "Ok"
    THEN LET status == unwrap_or(resp.status, w.pd.payout_attempt.status)
             err == is_payout_err_state(status)
         IN update_attempt_then_payout(w,
                StatusUpdate(w.a, status,
                             IF err THEN resp.error_code ELSE None,
                             IF err THEN resp.error_message ELSE None,
                             resp.payout_eligible), fail)
    ELSE [w EXCEPT !.pd.payout_attempt.error_code = Some("connector_code"),
                   !.pd.payout_attempt.error_message =
                       Some("connector_message")]

create_payout_retrieve(w, resp, fail) ==
    LET w1 == execute_connector_processing_step(w, "PoSync", resp)
    IN IF w1.res # "Ok" THEN w1
       ELSE update_retrieve_payout_tracker(w1, resp, fail)

----------------------------------------------------------------------------
(* Requests *)

PayoutCreateRequest ==
    [confirm : Option(BOOLEAN), payout_method_data : BOOLEAN,
     auto_fulfill : BOOLEAN, payout_link : BOOLEAN]

PayoutConfirmRequest == [payout_method_data : BOOLEAN]

PayoutUpdateRequest ==
    [confirm : Option(BOOLEAN), payout_method_data : BOOLEAN,
     connector : BOOLEAN]

\* payout_create_db_entries without the match on req.confirm: C10 fails on it
payout_create_db_entries_ignoring_confirm(req) ==
    IF req.payout_method_data
    THEN "RequiresCreation"
    ELSE "RequiresPayoutMethodData"

\* the status payout_create_db_entries gives both new rows
payout_create_db_entries(req) ==
    IF req.payout_method_data
    THEN IF req.confirm = Some(TRUE) THEN "RequiresCreation"
         ELSE "RequiresConfirmation"
    ELSE "RequiresPayoutMethodData"

\* make_payout_data: the aggregate read from storage for a request on an
\* existing payout
make_payout_data(payout_method_data) ==
    [payouts |-> db_payouts, payout_attempt |-> db_payout_attempt,
     payout_method_data |-> payout_method_data, should_terminate |-> FALSE,
     payout_link |-> db_payouts.payout_link_id]

\* the world a request on an existing payout starts from
Loaded(payout_method_data) ==
    [World EXCEPT !.pd = make_payout_data(payout_method_data),
                  !.calls = <<>>]

\* helpers::update_payouts_and_payout_attempt: stores the request's fields;
\* the status either stays or advances as method data and confirm allow
update_payouts_and_payout_attempt(w, confirm, payout_method_data, advance) ==
    LET available == make_payout_method_data(payout_method_data,
                                             w.a.payout_token)
        status == IF advance /\ available
                  THEN IF confirm = Some(TRUE) THEN "RequiresCreation"
                       ELSE "RequiresConfirmation"
                  ELSE w.a.status
        a == [w.a EXCEPT !.status = status, !.payout_token = available]
        p == [w.p EXCEPT !.status = status, !.confirm = (confirm = Some(TRUE))]
    IN [w EXCEPT !.a = a, !.p = p, !.pd.payout_attempt = a, !.pd.payouts = p]

\* variant: the status of the attempt is not validated before the update
payouts_confirm_core_without_validation(w, req, advance) ==
    update_payouts_and_payout_attempt(w, Some(TRUE), req.payout_method_data,
                                      advance)

payouts_confirm_core(w, req, advance) ==
    IF ~validate_payout_status_against_not_allowed_statuses(
            w.pd.payout_attempt.status, ConfirmNotAllowedStatuses)
    THEN [w EXCEPT !.res = "PreconditionFailed"]
    ELSE update_payouts_and_payout_attempt(w, Some(TRUE),
                                           req.payout_method_data, advance)

payouts_update_core(w, req, advance) ==
    LET status == w.pd.payout_attempt.status
    IN IF is_payout_terminal_state(status) \/ is_payout_initiated(status)
       THEN [w EXCEPT !.res = "InvalidRequestData"]
       ELSE LET w1 == update_payouts_and_payout_attempt(w, req.confirm,
                          req.payout_method_data, advance)
                w2 == IF ~(~req.connector
                           /\ w1.pd.payout_attempt.connector # NoConnector)
                      THEN [w1 EXCEPT !.pd.payout_attempt.connector =
                                          NoConnector]
                      ELSE w1
            IN [w2 EXCEPT !.pd.payout_method_data =
                   make_payout_method_data(req.payout_method_data,
                                           w2.pd.payout_attempt.payout_token)]

\* payouts_cancel_core whose local cancellation leaves the payouts row alone:
\* C8 fails on it
payouts_cancel_core_attempt_only(w, resp, fail) ==
    LET payout_attempt == w.pd.payout_attempt
        status == payout_attempt.status
    IN IF is_payout_terminal_state(status)
       THEN [w EXCEPT !.res = "InvalidRequestData"]
       ELSE IF is_eligible_for_local_payout_cancellation(status)
       THEN update_payout_attempt(w,
                StatusUpdate(w.a, "Cancelled", None,
                             Some("Cancelled by user"), None), fail)
       ELSE IF payout_attempt.connector = NoConnector
       THEN [w EXCEPT !.res = "MissingRequiredField"]
       ELSE cancel_payout(w, resp, fail)

payouts_cancel_core(w, resp, fail) ==
    LET payout_attempt == w.pd.payout_attempt
        status == payout_attempt.status
    IN IF is_payout_terminal_state(status)
       THEN [w EXCEPT !.res = "InvalidRequestData"]
       ELSE IF is_eligible_for_local_payout_cancellation(status)
       THEN update_attempt_then_payout(w,
                StatusUpdate(w.a, "Cancelled", None,
                             Some("Cancelled by user"), None), fail)
       ELSE IF payout_attempt.connector = NoConnector
       THEN [w EXCEPT !.res = "MissingRequiredField"]
       ELSE cancel_payout(w, resp, fail)

\* payouts_fulfill_core without the check that fulfillment can be triggered:
\* C6 fails on it
payouts_fulfill_core_any_status(w, resp, fail) ==
    LET payout_attempt == w.pd.payout_attempt
        status == payout_attempt.status
    IN IF payout_attempt.connector = NoConnector
       THEN [w EXCEPT !.res = "MissingRequiredField"]
       ELSE IF ~make_payout_method_data(FALSE, payout_attempt.payout_token)
       THEN [w EXCEPT !.res = "MissingRequiredField"]
       ELSE LET w1 == fulfill_payout(
                          [w EXCEPT !.pd.payout_method_data = TRUE],
                          resp, fail)
            IN IF w1.res = "Ok" /\ is_payout_err_state(status)
               THEN [w1 EXCEPT !.res = "PayoutFailed"]
               ELSE w1

payouts_fulfill_core(w, resp, fail) ==
    LET payout_attempt == w.pd.payout_attempt
        status == payout_attempt.status
    IN IF is_payout_terminal_state(status) \/ status # "RequiresFulfillment"
       THEN [w EXCEPT !.res = "InvalidRequestData"]
       ELSE IF payout_attempt.connector = NoConnector
       THEN [w EXCEPT !.res = "MissingRequiredField"]
       ELSE IF ~make_payout_method_data(FALSE, payout_attempt.payout_token)
       THEN [w EXCEPT !.res = "MissingRequiredField"]
       ELSE LET w1 == fulfill_payout(
                          [w EXCEPT !.pd.payout_method_data = TRUE],
                          resp, fail)
            IN IF w1.res = "Ok" /\ is_payout_err_state(status)
               THEN [w1 EXCEPT !.res = "PayoutFailed"]
               ELSE w1

----------------------------------------------------------------------------
(* Connector choice *)

ConnectorChoice == {"SessionMultiple", "StraightThrough", "Decide"}

\* the ordered candidate lists routing can resolve: connectors the merchant
\* has configured, each at most once
ConnectorLists(n) ==
    {l \in UNION {[1..k -> conf.routable] : k \in 0..n} :
        \A i, j \in DOMAIN l : i # j => l[i] # l[j]}

ConnectorCallType ==
    [type : {"PreDetermined"}, connectors : [1..1 -> conf.routable]]
        \cup [type : {"Retryable"}, connectors : ConnectorLists(MaxConnectors)]
        \cup [type : {"SessionMultiple"}, connectors : {<<>>}]

\* no call type has been resolved
NoCallType == [type |-> "None", connectors |-> <<>>]

\* variant: a SessionMultiple choice is resolved like any other
get_connector_choice_accepting_session_multiple(choice, call_type) ==
    [res |-> "Ok", call_type |-> call_type]

\* get_connector_choice: the call type decide_payout_connector resolves, or
\* the error for a SessionMultiple choice
get_connector_choice(choice, call_type) ==
    IF choice = "SessionMultiple"
    THEN [res |-> "InternalServerError", call_type |-> call_type]
    ELSE [res |-> "Ok", call_type |-> call_type]

\* variant: an empty sequence is served by a connector of the merchant
get_next_connector_defaulting(connectors) ==
    IF connectors = <<>>
    THEN [res |-> "Ok", connector |-> CHOOSE c \in conf.routable : TRUE]
    ELSE [res |-> "Ok", connector |-> Head(connectors)]

get_next_connector(connectors) ==
    IF connectors = <<>>
    THEN [res |-> "InternalServerError", connector |-> NoConnector]
    ELSE [res |-> "Ok", connector |-> Head(connectors)]

\* variant: a PreDetermined call type is served by another connector of the
\* merchant
make_connector_decision_other_connector(call_type) ==
    CASE call_type.type = "PreDetermined" ->
            [res |-> "Ok",
             connector |-> CHOOSE c \in conf.routable :
                              conf.routable = {c} \/ c # call_type.connectors[1]]
      [] call_type.type = "Retryable" ->
            get_next_connector(call_type.connectors)
      [] OTHER -> [res |-> "InternalServerError", connector |-> NoConnector]

\* make_connector_decision up to its call of call_connector_payout: the
\* connector the pass runs against
make_connector_decision(call_type) ==
    CASE call_type.type = "PreDetermined" ->
            [res |-> "Ok", connector |-> call_type.connectors[1]]
      [] call_type.type = "Retryable" ->
            get_next_connector(call_type.connectors)
      [] OTHER -> [res |-> "InternalServerError", connector |-> NoConnector]

\* payout_data.should_call_gsm(): whether the attempt just completed is
\* classified as retryable
should_call_gsm(retryable) == retryable

\* variant: the multi-connector retry is handed over whatever its GSM
\* configuration says
do_gsm_actions_ignoring_config(w, first_retryable, second_retryable) ==
    IF w.res = "Ok" /\ w.ct.type = "Retryable"
       /\ should_call_gsm(first_retryable)
    THEN [w EXCEPT !.gsm = <<[retry |-> "MultiConnector", connector |-> w.cd,
                             connectors |-> Tail(w.ct.connectors)]>>]
    ELSE w

\* variant: the single-connector retry is decided before the multi-connector one
do_gsm_actions_single_before_multiple(w, first_retryable, second_retryable) ==
    LET single ==
            [retry |-> "SingleConnector", connector |-> w.cd,
             connectors |-> <<>>]
        multiple ==
            [retry |-> "MultiConnector", connector |-> w.cd,
             connectors |-> Tail(w.ct.connectors)]
    IN IF w.res # "Ok" THEN w
       ELSE IF w.ct.type = "PreDetermined"
       THEN IF conf.gsm_single_connector /\ should_call_gsm(first_retryable)
            THEN [w EXCEPT !.gsm = <<single>>]
            ELSE w
       ELSE LET w1 == IF conf.gsm_single_connector
                         /\ should_call_gsm(first_retryable)
                      THEN [w EXCEPT !.gsm = <<single>>]
                      ELSE w
                retryable == IF w1.gsm # <<>> THEN second_retryable
                             ELSE first_retryable
            IN IF conf.gsm_multi_connector /\ should_call_gsm(retryable)
               THEN [w1 EXCEPT !.gsm = Append(@, multiple)]
               ELSE w1

\* make_connector_decision after call_connector_payout has returned Ok, with
\* feature payout_retry: the retries handed to do_gsm_multiple_connector_actions
\* (with the rest of the iterator) and do_gsm_single_connector_actions.
\* should_call_gsm reads the attempt: first_retryable is what it answers after
\* the pass, second_retryable what it answers after a multi-connector retry;
\* when no multi-connector retry has run the attempt is as the pass left it
\* and the second evaluation answers as the first.
do_gsm_actions(w, first_retryable, second_retryable) ==
    LET single ==
            [retry |-> "SingleConnector", connector |-> w.cd,
             connectors |-> <<>>]
        multiple ==
            [retry |-> "MultiConnector", connector |-> w.cd,
             connectors |-> Tail(w.ct.connectors)]
    IN IF w.res # "Ok" THEN w
       ELSE IF w.ct.type = "PreDetermined"
       THEN IF conf.gsm_single_connector /\ should_call_gsm(first_retryable)
            THEN [w EXCEPT !.gsm = <<single>>]
            ELSE w
       ELSE LET w1 == IF conf.gsm_multi_connector
                         /\ should_call_gsm(first_retryable)
                      THEN [w EXCEPT !.gsm = <<multiple>>]
                      ELSE w
                retryable == IF w1.gsm # <<>> THEN second_retryable
                             ELSE first_retryable
            IN IF conf.gsm_single_connector /\ should_call_gsm(retryable)
               THEN [w1 EXCEPT !.gsm = Append(@, single)]
               ELSE w1

\* complete_payout_retrieve: only a PreDetermined call type is served
complete_payout_retrieve(w, call_type, resp, fail) ==
    IF call_type.type = "PreDetermined"
    THEN create_payout_retrieve(w, resp, fail)
    ELSE [w EXCEPT !.res = "InternalServerError"]

payouts_retrieve_core(w, force_sync, choice, call_type, resp, fail) ==
    IF force_sync = Some(TRUE)
       /\ should_call_retrieve(w.pd.payout_attempt.status)
    THEN LET r == get_connector_choice(choice, call_type)
         IN IF r.res # "Ok" THEN [w EXCEPT !.res = r.res]
            ELSE complete_payout_retrieve(w, r.call_type, resp, fail)
    ELSE w

\* variant: the routing update is written only for an attempt without connector
call_connector_payout_keeping_connector(w, connector, fail) ==
    LET payout_attempt == w.pd.payout_attempt
        w1 == IF payout_attempt.connector = NoConnector
              THEN update_payout_attempt(w, UpdateRouting(w.a, connector),
                                         fail)
              ELSE w
    IN IF w1.res # "Ok" THEN w1
       ELSE IF ~w1.pd.payout_method_data \/ ~payout_attempt.payout_token
       THEN IF make_payout_method_data(w1.pd.payout_method_data,
                                       payout_attempt.payout_token)
            THEN [w1 EXCEPT !.pd.payout_method_data = TRUE]
            ELSE [w1 EXCEPT !.res = "MissingRequiredField"]
       ELSE w1

\* call_connector_payout up to its first sub-flow: the routing update and
\* the payout method data
call_connector_payout(w, connector, fail) ==
    LET payout_attempt == w.pd.payout_attempt
        w1 == IF payout_attempt.connector = NoConnector
                 \/ payout_attempt.connector # connector
              THEN update_payout_attempt(w, UpdateRouting(w.a, connector),
                                         fail)
              ELSE w
    IN IF w1.res # "Ok" THEN w1
       ELSE IF ~w1.pd.payout_method_data \/ ~payout_attempt.payout_token
       THEN IF make_payout_method_data(w1.pd.payout_method_data,
                                       payout_attempt.payout_token)
            THEN [w1 EXCEPT !.pd.payout_method_data = TRUE]
            ELSE [w1 EXCEPT !.res = "MissingRequiredField"]
       ELSE w1

----------------------------------------------------------------------------
(* Actions *)

Configurations ==
    [supports_payout_eligibility : BOOLEAN,
     supports_create_recipient : BOOLEAN,
     supports_vendor_disburse_account_create_for_payout : BOOLEAN,
     supports_instant_payout : BOOLEAN,
     payout_eligibility : BOOLEAN,
     gsm_multi_connector : BOOLEAN,
     gsm_single_connector : BOOLEAN,
     routable : SUBSET Connectors \ {{}}]

NoPayoutLink == [rows |-> 0, link_status |-> "None"]

InitCommon ==
    /\ db_payouts = NoPayouts
    /\ db_payout_attempt = NoPayoutAttempt
    /\ db_payout_link = NoPayoutLink
    /\ process_tracker = 0
    /\ payout_data = NoPayoutData
    /\ connector_data = NoConnector
    /\ connector_call_type = NoCallType
    /\ gsm = <<>>
    /\ pc = "idle"
    /\ op = "none"
    /\ result = "none"
    /\ calls = <<>>
    /\ writes = <<>>
    /\ requests = 0
    /\ answer = NoAnswer
    /\ eligibility_answer = None
    /\ req_force_sync = None
    /\ conf \in Configurations

\* a merchant with one connector and no GSM retry configured
NoFailover ==
    /\ ~conf.gsm_multi_connector
    /\ ~conf.gsm_single_connector
    /\ conf.routable = {"stripe"}

Init == InitCommon /\ db_faulty = FALSE /\ NoFailover

\* the same program over a storage whose writes may fail, with a connector
\* that supports every sub-flow that writes
InitFaulty ==
    /\ InitCommon
    /\ db_faulty = TRUE
    /\ NoFailover
    /\ conf.supports_payout_eligibility
    /\ conf.supports_create_recipient
    /\ conf.supports_vendor_disburse_account_create_for_payout

\* the world a step leaves becomes the state; a failed step ends the request,
\* and the PayoutData and ConnectorData of a request are dropped when it ends
Commit(w, next_pc) ==
    /\ db_payout_attempt' = w.a
    /\ db_payouts' = w.p
    /\ payout_data' = IF w.res # "Ok" \/ next_pc = "idle"
                      THEN NoPayoutData ELSE w.pd
    /\ connector_data' = IF w.res # "Ok" \/ next_pc = "idle"
                         THEN NoConnector ELSE w.cd
    /\ connector_call_type' =
           IF \/ next_pc = "idle"
              \/ w.res # "Ok" /\ pc # "payouts_core"
              \/ /\ pc # "payouts_core"
                 /\ ~conf.gsm_multi_connector
                 /\ ~conf.gsm_single_connector
           THEN NoCallType ELSE w.ct
    /\ gsm' = w.gsm
    /\ calls' = w.calls
    /\ writes' = w.writes
    /\ process_tracker' = w.tasks
    /\ IF w.res # "Ok"
       THEN pc' = "idle" /\ result' = w.res
       ELSE /\ pc' = next_pc
            /\ result' = IF next_pc = "idle" THEN "Ok" ELSE "InFlight"

Exists == db_payouts.status # NotFound

\* a storage write of the last step failed
WriteFailed ==
    \E i \in DOMAIN writes :
        writes[i] \in {"payout_attempt_error", "payouts_error",
                       "process_tracker_error", "insert_payouts_error",
                       "insert_payout_attempt_error"}

\* a request is received: no other is in flight. A behaviour is followed up to
\* the request in which a storage write fails, and no further.
Receive(name) ==
    /\ pc = "idle"
    /\ requests < MaxRequests
    /\ ~WriteFailed
    /\ requests' = requests + 1
    /\ eligibility_answer' = None
    /\ op' = name

\* the answers drawn for a connector call that is made, one for a call that is not
Answers(made, S) == IF made THEN S ELSE {ConnectorAbort}

\* whether the handler that left the world w of a request called the connector
Calling(w) == w.calls # <<>>

\* the answer the step that left the world w got to its call of flow, if it
\* made one
Answered(w, flow, resp) ==
    answer' = IF \E i \in DOMAIN w.calls :
                     w.calls[i] = flow /\ (pc = "idle" \/ i > Len(calls))
              THEN resp ELSE NoAnswer

\* the storage faults drawn for a step that writes, none for one that does not
Faults(writing) == IF writing THEN FailPoints ELSE {"none"}

\* payouts_create_core: payout_create_db_entries inserts the PayoutLink the
\* request asks for, then the Payouts row, then the PayoutAttempt row, each
\* insert followed by "?"
PayoutsCreate ==
    /\ Receive("create")
    /\ ~Exists
    /\ \E req \in PayoutCreateRequest, fail \in FailPoints \ {"process_tracker"} :
        LET status == payout_create_db_entries(req)
            payouts == [status |-> status, auto_fulfill |-> req.auto_fulfill,
                        confirm |-> (req.confirm = Some(TRUE)),
                        payout_link_id |-> req.payout_link]
            payout_attempt == [NoPayoutAttempt EXCEPT
                                  !.status = status,
                                  !.payout_token = req.payout_method_data]
        IN /\ db_payout_link' =
                  IF req.payout_link
                  THEN [rows |-> db_payout_link.rows + 1,
                        link_status |-> "Initiated"]
                  ELSE db_payout_link
           /\ db_payouts' = IF fail = "payouts" THEN db_payouts ELSE payouts
           /\ db_payout_attempt' =
                  IF fail = "none" THEN payout_attempt ELSE db_payout_attempt
           /\ writes' = IF fail = "none" THEN <<>>
                        ELSE <<"insert_" \o fail \o "_error">>
           /\ payout_data' =
                  IF req.confirm = Some(TRUE) /\ fail = "none"
                  THEN [payouts |-> payouts, payout_attempt |-> payout_attempt,
                        payout_method_data |->
                            make_payout_method_data(req.payout_method_data,
                                payout_attempt.payout_token),
                        should_terminate |-> FALSE,
                        payout_link |-> req.payout_link]
                  ELSE NoPayoutData
           /\ IF fail # "none"
              THEN pc' = "idle" /\ result' = "InternalServerError"
              ELSE IF req.confirm = Some(TRUE)
              THEN pc' = "payouts_core" /\ result' = "InFlight"
              ELSE pc' = "idle" /\ result' = "Ok"
    /\ calls' = <<>>
    /\ answer' = NoAnswer
    /\ req_force_sync' = None
    /\ UNCHANGED <<process_tracker, connector_data, connector_call_type, gsm,
                   conf, db_faulty>>

PayoutsConfirm ==
    /\ Receive("confirm")
    /\ Exists
    /\ \E req \in PayoutConfirmRequest, advance \in BOOLEAN :
        LET w == payouts_confirm_core(Loaded(req.payout_method_data), req,
                                      advance)
        IN /\ Commit(w, "payouts_core")
           /\ db_payout_link' =
                  IF w.res = "Ok" /\ w.pd.payout_link
                  THEN [db_payout_link EXCEPT !.link_status = "Submitted"]
                  ELSE db_payout_link
    /\ answer' = NoAnswer
    /\ req_force_sync' = None
    /\ UNCHANGED <<conf, db_faulty>>

PayoutsUpdate ==
    /\ Receive("update")
    /\ Exists
    /\ \E req \in PayoutUpdateRequest, advance \in BOOLEAN :
        LET w == payouts_update_core(Loaded(req.payout_method_data), req,
                                     advance)
        IN Commit(w, IF w.pd.payouts.confirm
                     THEN "payouts_core" ELSE "idle")
    /\ answer' = NoAnswer
    /\ req_force_sync' = None
    /\ UNCHANGED <<db_payout_link, conf, db_faulty>>

PayoutsRetrieve ==
    /\ Receive("retrieve")
    /\ Exists
    /\ \E force_sync \in Option(BOOLEAN) :
        LET sync == /\ force_sync = Some(TRUE)
                    /\ should_call_retrieve(db_payout_attempt.status)
        IN \E choice \in IF sync THEN ConnectorChoice ELSE {"Decide"},
              call_type \in IF sync THEN ConnectorCallType
                            ELSE {[type |-> "SessionMultiple",
                                   connectors |-> <<>>]} :
            LET made == /\ sync
                        /\ choice # "SessionMultiple"
                        /\ call_type.type = "PreDetermined"
            IN \E resp \in Answers(made, SyncResponses),
                  fail \in Faults(made) :
                LET w == payouts_retrieve_core(Loaded(FALSE), force_sync,
                                               choice, call_type, resp, fail)
                IN /\ Commit(w, "idle")
                   /\ Answered(w, "PoSync", resp)
                   /\ req_force_sync' = force_sync
    /\ UNCHANGED <<db_payout_link, conf, db_faulty>>

PayoutsCancel ==
    /\ Receive("cancel")
    /\ Exists
    /\ LET w == Loaded(db_payout_attempt.payout_token)
           made == Calling(payouts_cancel_core(w, ConnectorAbort, "none"))
       IN \E resp \in Answers(made, PayoutsResponses), fail \in FailPoints :
            LET w1 == payouts_cancel_core(w, resp, fail)
            IN Commit(w1, "idle") /\ Answered(w1, "PoCancel", resp)
    /\ req_force_sync' = None
    /\ UNCHANGED <<db_payout_link, conf, db_faulty>>

PayoutsFulfill ==
    /\ Receive("fulfill")
    /\ Exists
    /\ LET w == Loaded(db_payout_attempt.payout_token)
           made == Calling(payouts_fulfill_core(w, ConnectorAbort, "none"))
       IN \E resp \in Answers(made, PayoutsResponses), fail \in Faults(made) :
            LET w1 == payouts_fulfill_core(w, resp, fail)
            IN Commit(w1, "idle") /\ Answered(w1, "PoFulfill", resp)
    /\ req_force_sync' = None
    /\ UNCHANGED <<db_payout_link, conf, db_faulty>>

\* payouts_core: get_connector_choice, then make_connector_decision picks the
\* connector of the pass
PayoutsCore ==
    /\ pc = "payouts_core"
    /\ \E choice \in ConnectorChoice, call_type \in ConnectorCallType :
        LET r == get_connector_choice(choice, call_type)
            d == IF r.res # "Ok"
                 THEN [res |-> r.res, connector |-> NoConnector]
                 ELSE make_connector_decision(r.call_type)
        IN Commit([World EXCEPT !.cd = d.connector, !.res = d.res,
                                 !.ct = IF r.res # "Ok" THEN NoCallType
                                        ELSE r.call_type],
                  "call_connector_payout")
    /\ answer' = NoAnswer
    /\ UNCHANGED <<db_payout_link, op, requests, req_force_sync,
                   eligibility_answer, conf, db_faulty>>

CallConnectorPayout ==
    /\ pc = "call_connector_payout"
    /\ \E fail \in FailPoints :
        Commit(call_connector_payout(World, connector_data, fail),
               "eligibility")
    /\ answer' = NoAnswer
    /\ UNCHANGED <<db_payout_link, op, requests, req_force_sync,
                   eligibility_answer, conf, db_faulty>>

EligibilityFlow ==
    /\ pc = "eligibility"
    /\ LET made == eligibility_required(World)
       IN \E resp \in Answers(made, PayoutsResponses), fail \in Faults(made) :
            /\ Commit(complete_payout_eligibility(World, resp, fail),
                      "recipient")
            /\ Answered(complete_payout_eligibility(World, resp, fail),
                        "PoEligibility", resp)
            /\ eligibility_answer' =
                   IF made /\ resp.kind = "Ok"
                   THEN Some(resp.payout_eligible)
                   ELSE eligibility_answer
    /\ UNCHANGED <<db_payout_link, op, requests, req_force_sync, conf,
                   db_faulty>>

CreateCustomerFlow ==
    /\ pc = "recipient"
    /\ \E should_call_connector \in
              IF recipient_required(World) THEN BOOLEAN ELSE {FALSE} :
        \E resp \in Answers(should_call_connector, RecipientResponses),
           fail \in Faults(should_call_connector) :
            LET w == complete_create_recipient(World, should_call_connector,
                                               resp, fail)
            IN Commit(w, "disburse_account")
               /\ Answered(w, "PoRecipient", resp)
    /\ UNCHANGED <<db_payout_link, op, requests, req_force_sync,
                   eligibility_answer, conf, db_faulty>>

\* variant: the recipient flow runs again after a disbursement-account call
DisburseAccountFlow_then_recipient ==
    /\ pc = "disburse_account"
    /\ LET made == disburse_account_required(World)
       IN \E resp \in Answers(made, PayoutsResponses), fail \in Faults(made) :
            LET w == complete_create_recipient_disburse_account(World, resp,
                                                                fail)
            IN Commit(w, IF made THEN "recipient" ELSE "create")
               /\ Answered(w, "PoRecipientAccount", resp)
    /\ UNCHANGED <<db_payout_link, op, requests, req_force_sync,
                   eligibility_answer, conf, db_faulty>>

DisburseAccountFlow ==
    /\ pc = "disburse_account"
    /\ LET made == disburse_account_required(World)
       IN \E resp \in Answers(made, PayoutsResponses), fail \in Faults(made) :
            LET w == complete_create_recipient_disburse_account(World, resp,
                                                                fail)
            IN Commit(w, "create") /\ Answered(w, "PoRecipientAccount", resp)
    /\ UNCHANGED <<db_payout_link, op, requests, req_force_sync,
                   eligibility_answer, conf, db_faulty>>

PayoutCreationFlow ==
    /\ pc = "create"
    /\ LET acts == creation_required(World)
           made == acts /\ ~conf.supports_instant_payout
       IN \E quote \in IF made THEN QuoteAnswers ELSE {NoQuote},
             resp \in Answers(made, PayoutsResponses), fail \in Faults(acts) :
            LET w == complete_create_payout(World, quote, resp, fail)
            IN Commit(w, "auto_fulfill") /\ Answered(w, "PoCreate", resp)
    /\ UNCHANGED <<db_payout_link, op, requests, req_force_sync,
                   eligibility_answer, conf, db_faulty>>

AutoFulfillmentFlow ==
    /\ pc = "auto_fulfill"
    /\ LET made == auto_fulfill_required(World)
           retry == conf.gsm_multi_connector \/ conf.gsm_single_connector
       IN \E resp \in Answers(made, PayoutsResponses), fail \in Faults(made),
             first_retryable \in IF retry THEN BOOLEAN ELSE {FALSE},
             second_retryable \in IF retry THEN BOOLEAN ELSE {FALSE} :
            LET w == auto_fulfill(World, resp, fail)
            IN /\ Commit(do_gsm_actions(w, first_retryable, second_retryable),
                         "idle")
               /\ Answered(w, "PoFulfill", resp)
    /\ UNCHANGED <<db_payout_link, op, requests, req_force_sync,
                   eligibility_answer, conf, db_faulty>>

Next ==
    \/ PayoutsCreate
    \/ PayoutsConfirm
    \/ PayoutsUpdate
    \/ PayoutsRetrieve
    \/ PayoutsCancel
    \/ PayoutsFulfill
    \/ PayoutsCore
    \/ CallConnectorPayout
    \/ EligibilityFlow
    \/ CreateCustomerFlow
    \/ DisburseAccountFlow
    \/ PayoutCreationFlow
    \/ AutoFulfillmentFlow

Spec == Init /\ [][Next]_vars

\* the same program for a merchant with several connectors and any GSM retry
\* configuration, on connectors without the eligibility, recipient and
\* disbursement-account sub-flows
InitRouting ==
    /\ InitCommon
    /\ db_faulty = FALSE
    /\ conf.routable = Connectors
    /\ ~conf.supports_payout_eligibility
    /\ ~conf.supports_create_recipient
    /\ ~conf.supports_vendor_disburse_account_create_for_payout

SpecRouting == InitRouting /\ [][Next]_vars

SpecFaulty == InitFaulty /\ [][Next]_vars

\* a merchant with several connectors and no GSM retry, over a storage whose
\* writes may fail, on connectors without the eligibility, recipient and
\* disbursement-account sub-flows
InitRoutingFaulty ==
    /\ InitCommon
    /\ db_faulty = TRUE
    /\ conf.routable = Connectors
    /\ ~conf.gsm_multi_connector
    /\ ~conf.gsm_single_connector
    /\ ~conf.supports_payout_eligibility
    /\ ~conf.supports_create_recipient
    /\ ~conf.supports_vendor_disburse_account_create_for_payout

SpecRoutingFaulty == InitRoutingFaulty /\ [][Next]_vars

\* the positions of a request inside its orchestration pass
InPass ==
    pc \in {"payouts_core", "call_connector_payout", "eligibility", "recipient",
            "disburse_account", "create", "auto_fulfill"}

\* a cancel request on the same payout id served by another task between two
\* steps of the pass in flight: nothing locks the payout id, so the cancel
\* loads its own PayoutData (make_payout_data), runs payouts_cancel_core and
\* writes the rows, while the PayoutData of the pass in flight stays as it was
\* loaded. calls, answer, op and result keep following the pass in flight.
\* The interleavings followed are those of a cancel that finds the payout
\* eligible for local cancellation.
ConcurrentCancel ==
    /\ InPass
    /\ is_eligible_for_local_payout_cancellation(db_payout_attempt.status)
    /\ requests < MaxRequests
    /\ requests' = requests + 1
    /\ LET w == Loaded(db_payout_attempt.payout_token)
           made == Calling(payouts_cancel_core(w, ConnectorAbort, "none"))
       IN \E resp \in Answers(made, PayoutsResponses), fail \in FailPoints :
            LET w1 == payouts_cancel_core(w, resp, fail)
            IN /\ db_payout_attempt' = w1.a
               /\ db_payouts' = w1.p
               /\ writes' = w1.writes
    /\ UNCHANGED <<db_payout_link, process_tracker, payout_data, connector_data,
                   connector_call_type, gsm, pc, op, result, calls, answer,
                   eligibility_answer, req_force_sync, conf, db_faulty>>

NextConcurrent == Next \/ ConcurrentCancel

\* one step of the orchestration pass of the request in flight
PassStep ==
    \/ PayoutsCore
    \/ CallConnectorPayout
    \/ EligibilityFlow
    \/ CreateCustomerFlow
    \/ DisburseAccountFlow
    \/ PayoutCreationFlow
    \/ AutoFulfillmentFlow

\* the same program when every connector and storage call returns: the
\* awaited step of a pass in flight is eventually taken
SpecLive == Init /\ [][Next]_vars /\ WF_vars(PassStep)

\* the same program with requests on one payout id served concurrently
SpecConcurrent == Init /\ [][NextConcurrent]_vars

----------------------------------------------------------------------------
(* Type invariant *)

TypeOK ==
    /\ db_payouts.status \in PayoutStatus \cup {NotFound}
    /\ db_payout_attempt.status \in PayoutStatus \cup {NotFound}
    /\ process_tracker \in 0..MaxTasks
    /\ requests \in 0..MaxRequests
    /\ connector_call_type \in ConnectorCallType \cup {NoCallType}
    /\ connector_data \in conf.routable \cup {NoConnector}
    /\ Len(gsm) <= 2
    /\ pc \in {"idle", "payouts_core", "call_connector_payout", "eligibility",
               "recipient", "disburse_account", "create", "auto_fulfill"}

----------------------------------------------------------------------------
(* Vocabulary of the properties *)

Range(seq) == {seq[i] : i \in DOMAIN seq}

\* the steps of call_connector_payout that follow the eligibility flow
AfterEligibility == {"recipient", "disburse_account", "create", "auto_fulfill"}

\* the connector operations issued by the step taken: a request starts a new
\* log, a step of a pass extends the log of its request
NewCalls ==
    IF pc = "idle" THEN calls'
    ELSE SubSeq(calls', Len(calls) + 1, Len(calls'))

\* the tables written by the step taken
NewWrites == writes'

\* the step taken receives the request named
Received(name) == pc = "idle" /\ requests' = requests + 1 /\ op' = name

\* the operations of the sub-flows that persist a status
SubFlowCalls ==
    {"PoEligibility", "PoRecipient", "PoRecipientAccount", "PoCreate",
     "PoCancel", "PoFulfill"}

----------------------------------------------------------------------------
(* C1..C5: statements the code does not keep *)

\* C1: after any sub-flow has returned, with every storage write succeeding,
\* the persisted PayoutAttempt.status equals the persisted Payout.status.
C1_AttemptPayoutConsistent ==
    Exists => db_payout_attempt.status = db_payouts.status

\* C2: a sub-flow that issued a connector call and got an answer (a success
\* or an error response) has written a status to both the PayoutAttempt and
\* the Payout table before it returns.
C2_ConnectorCallPersisted ==
    [][(/\ Range(NewCalls) \cap SubFlowCalls # {}
        /\ result' # "ConnectorCallFailed")
       => {"payout_attempt", "payouts"} \subseteq Range(NewWrites)]_vars

\* C3: once should_terminate is true in a pass, no later step of the pass
\* issues a connector call or writes a status, the auto-fulfill step included.
C3_TerminateStopsPass ==
    [][(pc \in AfterEligibility /\ payout_data.should_terminate)
       => (NewCalls = <<>> /\ NewWrites = <<>>)]_vars

\* C4: in a pass whose eligibility call succeeded with payout_eligible=false,
\* no recipient-creation or payout-creation call is issued and the pass ends
\* in an error status.
C4_IneligibleStopsPass ==
    eligibility_answer = Some(Some(FALSE))
        => /\ "PoRecipient" \notin Range(calls)
           /\ "PoCreate" \notin Range(calls)
           /\ pc = "idle" => is_payout_err_state(db_payout_attempt.status)

\* C5: as soon as a sub-flow of a pass has left a terminal status or set
\* should_terminate, no later sub-flow of the pass issues a connector call.
C5_TerminalStopsPass ==
    [][(/\ pc \in AfterEligibility
        /\ \/ is_payout_terminal_state(db_payout_attempt.status)
           \/ payout_data.should_terminate)
       => NewCalls = <<>>]_vars

\* the part of C5 that holds: a terminal status alone stops the connector calls
C5_TerminalStatusStopsPass ==
    [][(/\ pc \in AfterEligibility
        /\ is_payout_terminal_state(db_payout_attempt.status))
       => NewCalls = <<>>]_vars

----------------------------------------------------------------------------
(* C6..C10 *)

\* the persisted statuses of the payout and of its attempt
Statuses == <<db_payout_attempt.status, db_payouts.status>>

\* C6: terminal statuses are absorbing: once the persisted attempt status is
\* Success, Failed, Cancelled or Ineligible, no step of a confirm, update,
\* cancel, fulfill or retrieve request changes the persisted status of the
\* attempt or of the payout.
C6_TerminalAbsorbing ==
    [][is_payout_terminal_state(db_payout_attempt.status)
       => Statuses' = Statuses]_vars

\* a request on a payout in a terminal status has been rejected
C6_Witness ==
    /\ pc = "idle"
    /\ op = "fulfill"
    /\ result = "InvalidRequestData"
    /\ db_payout_attempt.status = "Success"
    /\ db_payouts.status = "Success"

\* C7: a confirm or an update request on a payout whose attempt status is
\* Success, Failed or Cancelled is rejected with an error, issues no connector
\* call and leaves the Payout, PayoutAttempt and PayoutLink records as they
\* were, each time it is made.
C7_TerminalConfirmUpdateRejected ==
    [][(/\ Received("confirm") \/ Received("update")
        /\ db_payout_attempt.status \in {"Success", "Failed", "Cancelled"})
       => /\ pc' = "idle"
          /\ result' \in {"PreconditionFailed", "InvalidRequestData"}
          /\ calls' = <<>>
          /\ UNCHANGED <<db_payouts, db_payout_attempt, db_payout_link>>]_vars

\* a confirm request on a failed payout has been rejected
C7_Witness ==
    /\ pc = "idle"
    /\ op = "confirm"
    /\ result = "PreconditionFailed"
    /\ db_payout_attempt.status = "Failed"
    /\ calls = <<>>

\* C8: cancelling a payout in RequiresCreation, RequiresConfirmation or
\* RequiresPayoutMethodData persists Cancelled on the attempt and on the payout
\* without a connector call; cancelling a payout in a terminal status is
\* rejected with an error and changes no stored state.
C8_Cancellation ==
    [][Received("cancel")
       => /\ db_payout_attempt.status \in
                 {"RequiresCreation", "RequiresConfirmation",
                  "RequiresPayoutMethodData"}
             => /\ result' = "Ok"
                /\ calls' = <<>>
                /\ db_payout_attempt'.status = "Cancelled"
                /\ db_payouts'.status = "Cancelled"
          /\ db_payout_attempt.status \in
                 {"Success", "Failed", "Cancelled", "Ineligible"}
             => /\ result' = "InvalidRequestData"
                /\ calls' = <<>>
                /\ UNCHANGED <<db_payouts, db_payout_attempt, db_payout_link,
                               process_tracker>>]_vars

\* a payout has been cancelled locally
C8_Witness ==
    /\ pc = "idle"
    /\ op = "cancel"
    /\ result = "Ok"
    /\ calls = <<>>
    /\ writes = <<"payout_attempt", "payouts">>
    /\ db_payout_attempt.status = "Cancelled"
    /\ db_payouts.status = "Cancelled"

\* C9: when the connector supports instant payout and the payout-creation
\* sub-flow is reached in a creation-eligible status with should_terminate
\* false, the sub-flow issues no create call and no quote call and persists
\* RequiresFulfillment on the attempt and on the payout.
C9_InstantPayout ==
    [][(/\ pc = "create"
        /\ conf.supports_instant_payout
        /\ ~payout_data.should_terminate
        /\ payout_data.payout_attempt.status \in
               {"RequiresCreation", "RequiresConfirmation",
                "RequiresPayoutMethodData"})
       => /\ NewCalls = <<>>
          /\ NewWrites = <<"payout_attempt", "payouts">>
          /\ db_payout_attempt'.status = "RequiresFulfillment"
          /\ db_payouts'.status = "RequiresFulfillment"]_vars

\* the creation sub-flow of an instant-payout connector has acted
C9_Witness ==
    /\ pc = "auto_fulfill"
    /\ conf.supports_instant_payout
    /\ writes = <<"payout_attempt", "payouts">>
    /\ db_payout_attempt.status = "RequiresFulfillment"
    /\ db_payouts.status = "RequiresFulfillment"
    /\ "PoCreate" \notin Range(calls)
    /\ "PoQuote" \notin Range(calls)

\* C10: a creation request with confirm absent or false leaves the attempt and
\* the payout in RequiresConfirmation when payout method data or a token came
\* with it, in RequiresPayoutMethodData otherwise, and issues no connector call.
C10_CreateWithoutConfirm ==
    (op = "create" /\ ~db_payouts.confirm)
        => /\ pc = "idle"
           /\ result = "Ok"
           /\ calls = <<>>
           /\ db_payout_attempt.status =
                  IF db_payout_attempt.payout_token
                  THEN "RequiresConfirmation"
                  ELSE "RequiresPayoutMethodData"
           /\ db_payouts.status = db_payout_attempt.status

\* a payout has been created unconfirmed with its method data
C10_Witness ==
    /\ op = "create"
    /\ pc = "idle"
    /\ result = "Ok"
    /\ ~db_payouts.confirm
    /\ db_payout_attempt.payout_token
    /\ db_payout_attempt.status = "RequiresConfirmation"

----------------------------------------------------------------------------
(* C11..C20 *)

\* C11: when the recipient-creation answer carries
\* should_add_next_step_to_process_tracker=true (the step inserts a
\* process-tracker task), then after create_recipient returns should_terminate
\* is true, the attempt and the payout are persisted in
\* RequiresVendorAccountCreation and exactly one task has been inserted.
C11_TrackerStep ==
    [][(pc = "recipient" /\ process_tracker' # process_tracker)
       => /\ process_tracker' = process_tracker + 1
          /\ payout_data'.should_terminate
          /\ db_payout_attempt'.status = "RequiresVendorAccountCreation"
          /\ db_payouts'.status = "RequiresVendorAccountCreation"]_vars

\* C12: a create request with confirm=true on a connector that supports
\* eligibility, recipient creation and instant payout, every connector call
\* answering with success (the eligibility call with payout_eligible=true) and
\* no task handed to the process tracker, ends in RequiresFulfillment with no
\* fulfill call when auto_fulfill=false, and in a terminal status when
\* auto_fulfill=true and the fulfill call was made.
C12_InstantScenario ==
    (/\ op = "create" /\ pc = "idle" /\ db_payouts.confirm
     /\ conf.supports_payout_eligibility
     /\ conf.supports_create_recipient
     /\ conf.supports_instant_payout
     /\ eligibility_answer = Some(Some(TRUE))
     /\ db_payout_attempt.error_code = None
     /\ result # "ConnectorCallFailed"
     /\ process_tracker = 0)
        => IF db_payouts.auto_fulfill
           THEN "PoFulfill" \in Range(calls)
                    => is_payout_terminal_state(db_payout_attempt.status)
           ELSE /\ db_payout_attempt.status = "RequiresFulfillment"
                /\ db_payouts.status = "RequiresFulfillment"
                /\ "PoFulfill" \notin Range(calls)

\* the step taken is not a retrieve request
NotRetrieve == ~(pc = "idle" /\ op' = "retrieve")

\* C13: when the connector call of a transition function (eligibility,
\* recipient-create, disbursement-create, payout-create, cancel, fulfill) is
\* answered with an error response, the function persists Failed with the
\* connector's error code and message on the attempt and Failed on the payout.
C13_ErrorResponsePersisted ==
    [][(answer'.kind = "Err" /\ NotRetrieve)
       => /\ db_payout_attempt'.status = "Failed"
          /\ db_payout_attempt'.error_code = Some("connector_code")
          /\ db_payout_attempt'.error_message = Some("connector_message")
          /\ db_payouts'.status = "Failed"]_vars

\* C14: a connector error response in a sub-flow of a create, confirm or
\* fulfill request does not abort the request: the step that got it goes on
\* or returns normally, with the attempt Failed and its error code and
\* message populated.
C14_ErrorResponseReturnsNormally ==
    [][(answer'.kind = "Err" /\ op' \in {"create", "confirm", "fulfill"})
       => /\ result' \in {"InFlight", "Ok"}
          /\ db_payout_attempt'.status = "Failed"
          /\ db_payout_attempt'.error_code # None
          /\ db_payout_attempt'.error_message # None]_vars

\* the status a success answer leads to: the one it carries, else the
\* attempt's status before the call
ResultingStatus == unwrap_or(answer'.status, db_payout_attempt.status)

\* C15: when the connector call of a transition function succeeds and the
\* resulting status is an error state (Failed, Cancelled, Ineligible), the
\* function persists the status on the attempt and on the payout and returns
\* a PayoutFailed result.
C15_ErrorStateReturnsPayoutFailed ==
    [][(/\ answer'.kind = "Ok"
        /\ ResultingStatus \in {"Failed", "Cancelled", "Ineligible"})
       => /\ db_payout_attempt'.status = ResultingStatus
          /\ db_payouts'.status = ResultingStatus
          /\ result' = "PayoutFailed"]_vars

\* C16: when the connector call of a transition function succeeds, the
\* persisted status of the attempt is the status the answer carries, else the
\* attempt's status before the call; the attempt's error_code and
\* error_message are cleared and the payout is persisted with the same status.
C16_SuccessPersisted ==
    [][answer'.kind = "Ok"
       => /\ db_payout_attempt'.status = ResultingStatus
          /\ db_payout_attempt'.error_code = None
          /\ db_payout_attempt'.error_message = None
          /\ db_payouts'.status = ResultingStatus]_vars


\* C17: in every status transition an operation persists (the sub-flows of a
\* pass, local cancel, connector cancel, fulfill, retrieve) the PayoutAttempt
\* row is written before the Payout row: each write of the payout follows
\* directly the write of the attempt, and the payout then carries the status
\* the attempt was given.
C17_AttemptBeforePayout ==
    /\ \A i \in DOMAIN writes :
          writes[i] = "payouts" => (i > 1 /\ writes[i - 1] = "payout_attempt")
    /\ "payouts" \in Range(writes)
          => db_payouts.status = db_payout_attempt.status

\* a fulfill request has persisted the status the connector answered
C17_Witness ==
    /\ op = "fulfill"
    /\ pc = "idle"
    /\ answer.kind = "Ok"
    /\ answer.status = Some("Success")
    /\ writes = <<"payout_attempt", "payouts">>
    /\ db_payouts.status = "Success"


\* the place of a connector operation in the order of a pass
SubFlowRank(flow) ==
    CASE flow = "PoEligibility" -> 1
      [] flow = "PoRecipient" -> 2
      [] flow = "PoRecipientAccount" -> 3
      [] flow = "PoQuote" -> 4
      [] flow = "PoCreate" -> 5
      [] flow = "PoFulfill" -> 6
      [] OTHER -> 0

\* the highest place a call can have when the pass stands at a step
StageRank(step) ==
    CASE step = "recipient" -> 1
      [] step = "disburse_account" -> 2
      [] step = "create" -> 3
      [] step = "auto_fulfill" -> 5
      [] step = "idle" -> 6
      [] OTHER -> 0

\* C18: within one pass the sub-flows run one at a time in the order
\* eligibility, create recipient, create disbursement account, create payout,
\* auto-fulfill: the connector calls of the pass are issued in this order, each
\* sub-flow at most once, and a sub-flow that the pass has not yet reached has
\* issued no call.
C18_SubFlowOrder ==
    op \in {"create", "confirm", "update"} =>
        /\ \A i, j \in DOMAIN calls :
              i < j => SubFlowRank(calls[i]) < SubFlowRank(calls[j])
        /\ \A i \in DOMAIN calls :
              /\ SubFlowRank(calls[i]) > 0
              /\ SubFlowRank(calls[i]) <= StageRank(pc)

\* a pass has called the connector in the eligibility, recipient and
\* auto-fulfill sub-flows
C18_Witness ==
    /\ op = "create"
    /\ pc = "idle"
    /\ Len(calls) >= 3
    /\ calls[1] = "PoEligibility"
    /\ calls[2] = "PoRecipient"
    /\ calls[Len(calls)] = "PoFulfill"


\* a write of the PayoutAttempt or of the Payout row fails in the step taken
RowWriteFails ==
    \E i \in DOMAIN writes' :
        writes'[i] \in {"payout_attempt_error", "payouts_error"}

\* the step taken ends its request with InternalServerError at the failed
\* write: that write is the last storage access of the step and is made once
AbortsAtFailedWrite ==
    /\ result' = "InternalServerError"
    /\ pc' = "idle"
    /\ \A i \in DOMAIN writes' :
          writes'[i] \in {"payout_attempt_error", "payouts_error",
                          "process_tracker_error"} => i = Len(writes')
    /\ writes'[Len(writes')] = "payouts_error"
          => /\ Len(writes') >= 2
             /\ writes'[Len(writes') - 1] = "payout_attempt"

\* C19 as stated: when a storage write of PayoutAttempt or Payout fails during
\* a transition, the operation aborts with InternalServerError, the write is
\* not retried and nothing further is called or written in the pass; when the
\* attempt write succeeded and the payout write fails, the two records are
\* left with differing status.
C19_FailedWriteLeavesDifferingStatus ==
    [][RowWriteFails
       => /\ AbortsAtFailedWrite
          /\ writes'[Len(writes')] = "payouts_error"
                => db_payout_attempt'.status # db_payouts'.status]_vars

\* C19, amended: when a storage write of PayoutAttempt or Payout fails during
\* a transition, the operation aborts with InternalServerError, the write is
\* not retried and nothing further is called or written in the pass; when the
\* attempt write succeeded and the payout write fails, the payout keeps the
\* row it had while the attempt holds the status of the transition, so the two
\* differ exactly when that status is not the one the payout had.
C19_FailedWriteAborts ==
    [][RowWriteFails
       => /\ AbortsAtFailedWrite
          /\ writes'[Len(writes')] = "payouts_error"
                => db_payouts' = db_payouts]_vars

\* the payout write of a sub-flow of a pass failed after its attempt write, and
\* the two records differ
C19_Witness ==
    /\ op = "create"
    /\ pc = "idle"
    /\ result = "InternalServerError"
    /\ writes = <<"payout_attempt", "payouts_error">>
    /\ db_payout_attempt.status # db_payouts.status


\* C20: a request for a status transition that is not allowed is rejected
\* before any connector call and without mutating a stored record: a fulfill
\* request when the attempt status is not RequiresFulfillment, and a confirm
\* request when the attempt status is Cancelled, Success, Failed, Pending,
\* Ineligible, RequiresFulfillment or RequiresVendorAccountCreation.
C20_DisallowedTransitionRejected ==
    [][(\/ /\ Received("fulfill")
           /\ db_payout_attempt.status # "RequiresFulfillment"
        \/ /\ Received("confirm")
           /\ db_payout_attempt.status \in
                  {"Cancelled", "Success", "Failed", "Pending", "Ineligible",
                   "RequiresFulfillment", "RequiresVendorAccountCreation"})
       => /\ pc' = "idle"
          /\ result' \in {"InvalidRequestData", "PreconditionFailed"}
          /\ calls' = <<>>
          /\ writes' = <<>>
          /\ UNCHANGED <<db_payouts, db_payout_attempt, db_payout_link,
                         process_tracker>>]_vars

\* a confirm request on a pending payout has been rejected
C20_Witness ==
    /\ pc = "idle"
    /\ op = "confirm"
    /\ result = "PreconditionFailed"
    /\ db_payout_attempt.status = "Pending"
    /\ db_payouts.status = "Pending"
    /\ calls = <<>>
    /\ writes = <<>>


----------------------------------------------------------------------------
(* C21..C30 *)

\* the steps of a pass, from call_connector_payout to the auto-fulfill step
PassSteps ==
    {"call_connector_payout", "eligibility", "recipient", "disburse_account",
     "create", "auto_fulfill"}

\* C21: when the connector choice resolves to PreDetermined, the pass runs
\* against that one connector: it is the connector of every step of the pass
\* and the one stored on the attempt the calls are made for, and the only
\* retry handed over is a single-connector retry on that same connector; with
\* no GSM retry configured a pass hands over no retry at all.
C21_PreDeterminedOneConnector ==
    [][/\ (pc = "payouts_core" /\ connector_call_type'.type = "PreDetermined")
          => connector_data' = connector_call_type'.connectors[1]
       /\ (pc \in PassSteps /\ pc' # "idle")
          => connector_data' = connector_data
       /\ (pc \in PassSteps /\ NewCalls # <<>>)
          => db_payout_attempt'.connector = connector_data
       /\ (pc \in PassSteps /\ connector_call_type.type = "PreDetermined")
          => \A i \in DOMAIN gsm' :
                /\ gsm'[i].retry = "SingleConnector"
                /\ gsm'[i].connector = connector_data
                /\ gsm'[i].connectors = <<>>
       /\ (~conf.gsm_multi_connector /\ ~conf.gsm_single_connector)
          => gsm' = <<>>]_vars

\* a pass on a PreDetermined connector has called that connector and reached
\* its last step
C21_Witness ==
    /\ pc = "auto_fulfill"
    /\ connector_call_type = [type |-> "PreDetermined",
                              connectors |-> <<"adyen">>]
    /\ connector_data = "adyen"
    /\ db_payout_attempt.connector = "adyen"
    /\ "PoCreate" \in Range(calls)


C23_SessionMultipleRejected ==
    [][/\ \A call_type \in ConnectorCallType :
             get_connector_choice("SessionMultiple", call_type).res
                 = "InternalServerError"
       /\ make_connector_decision([type |-> "SessionMultiple",
                                   connectors |-> <<>>]).res
              = "InternalServerError"
       /\ (pc = "payouts_core"
           /\ (connector_call_type'.type = "SessionMultiple"
               \/ result' = "InternalServerError"))
          => /\ pc' = "idle"
             /\ result' = "InternalServerError"
             /\ NewCalls = <<>>
             /\ NewWrites = <<>>
             /\ UNCHANGED <<db_payouts, db_payout_attempt>>]_vars

\* a confirmed creation has been rejected for a SessionMultiple call type
C23_Witness ==
    /\ pc = "idle"
    /\ op = "create"
    /\ result = "InternalServerError"
    /\ connector_call_type.type = "SessionMultiple"
    /\ calls = <<>>
    /\ db_payout_attempt.status = "RequiresCreation"
    /\ db_payouts.status = "RequiresCreation"


\* C24: the recipient-creation call is issued only by the recipient sub-flow,
\* and only when should_terminate is false, the attempt status at that point
\* is RequiresCreation, RequiresConfirmation or RequiresPayoutMethodData and
\* the connector supports recipient creation; in every other state the
\* sub-flow returns without a connector call and without changing stored
\* state.
C24_RecipientCallGuarded ==
    [][LET allowed ==
               /\ ~payout_data.should_terminate
               /\ payout_data.payout_attempt.status \in
                      {"RequiresCreation", "RequiresConfirmation",
                       "RequiresPayoutMethodData"}
               /\ conf.supports_create_recipient
       IN /\ "PoRecipient" \in Range(NewCalls)
             => pc = "recipient" /\ allowed
          /\ (pc = "recipient" /\ ~allowed)
             => /\ NewCalls = <<>>
                /\ NewWrites = <<>>
                /\ pc' = "disburse_account"
                /\ UNCHANGED <<db_payouts, db_payout_attempt, db_payout_link,
                               process_tracker>>]_vars

\* the recipient sub-flow has called the connector for an attempt that was in
\* RequiresCreation
C24_Witness ==
    /\ pc = "disburse_account"
    /\ calls # <<>>
    /\ calls[Len(calls)] = "PoRecipient"
    /\ answer.kind = "Ok"
    /\ ~answer.should_add_next_step_to_process_tracker
    /\ db_payout_attempt.status = "RequiresCreation"


\* C25: the disbursement-account call is issued only by the disbursement
\* sub-flow, and only when should_terminate is false, the attempt status is
\* exactly RequiresVendorAccountCreation and the connector supports vendor
\* disbursement-account creation; it is never issued in the pass in which a
\* recipient creation has set should_terminate.
C25_DisburseAccountCallGuarded ==
    [][/\ "PoRecipientAccount" \in Range(NewCalls)
          => /\ pc = "disburse_account"
             /\ ~payout_data.should_terminate
             /\ payout_data.payout_attempt.status
                    = "RequiresVendorAccountCreation"
             /\ conf.supports_vendor_disburse_account_create_for_payout
       /\ (pc = "recipient" /\ payout_data'.should_terminate)
          => pc' = "disburse_account"
       /\ (pc = "disburse_account" /\ payout_data.should_terminate)
          => NewCalls = <<>> /\ NewWrites = <<>>]_vars

\* the disbursement sub-flow has called the connector
C25_Witness ==
    /\ pc = "create"
    /\ calls # <<>>
    /\ calls[Len(calls)] = "PoRecipientAccount"
    /\ ~payout_data.should_terminate
    /\ conf.supports_vendor_disburse_account_create_for_payout


\* the eligibility call is issued only by the eligibility sub-flow, for a
\* connector that declares eligibility support and an attempt whose
\* is_eligible is unset
EligibilityCallGuarded ==
    "PoEligibility" \in Range(NewCalls)
        => /\ pc = "eligibility"
           /\ conf.supports_payout_eligibility
           /\ payout_data.payout_attempt.is_eligible = None

\* C26: the eligibility call is issued only when the connector declares
\* eligibility support and the attempt's is_eligible is unset; when the
\* attempt resolves to an error state through the eligibility call, the pass
\* fails and no later sub-flow runs.
C26_EligibilityErrorStateFailsPass ==
    [][/\ EligibilityCallGuarded
       /\ ("PoEligibility" \in Range(NewCalls)
           /\ answer'.kind \in {"Ok", "Err"}
           /\ db_payout_attempt'.status \in {"Failed", "Cancelled",
                                             "Ineligible"})
          => pc' = "idle" /\ result' = "PayoutFailed"]_vars


\* C27: at the end of the sub-flow sequence of a pass the fulfillment call is
\* issued, in that pass, exactly when the payout has auto_fulfill = true and
\* the attempt status after the creation sub-flow is RequiresFulfillment; no
\* earlier step of a pass issues it, and with auto_fulfill = false a create or
\* confirm pass issues no fulfill call.
C27_AutoFulfill ==
    [][/\ pc = "auto_fulfill"
          => ("PoFulfill" \in Range(NewCalls)
                <=> /\ payout_data.payouts.auto_fulfill
                    /\ payout_data.payout_attempt.status
                           = "RequiresFulfillment")
       /\ (pc \in PassSteps \ {"auto_fulfill"} \/ pc = "payouts_core")
          => "PoFulfill" \notin Range(NewCalls)
       /\ (op' \in {"create", "confirm", "update"}
           /\ ~db_payouts'.auto_fulfill)
          => "PoFulfill" \notin Range(calls')]_vars

\* a creation with auto_fulfill has fulfilled the payout in its own pass
C27_Witness ==
    /\ pc = "idle"
    /\ op = "create"
    /\ db_payouts.auto_fulfill
    /\ calls # <<>>
    /\ calls[Len(calls)] = "PoFulfill"
    /\ answer.kind = "Ok"
    /\ result = "Ok"


\* C28: every status change a pass persists for an attempt in RequiresCreation
\* leads to RequiresVendorAccountCreation, RequiresFulfillment, Success or
\* Failed, whatever status the connector response carries.
C28_FromRequiresCreation ==
    [][(/\ pc \in PassSteps
        /\ db_payout_attempt.status = "RequiresCreation"
        /\ db_payout_attempt'.status # "RequiresCreation")
       => db_payout_attempt'.status \in
              {"RequiresVendorAccountCreation", "RequiresFulfillment",
               "Success", "Failed"}]_vars


\* C29: a fulfill request on a payout in RequiresFulfillment whose connector
\* call completes, with a success or an error response, leaves the persisted
\* attempt and payout in a terminal status.
C29_FulfillEndsTerminal ==
    [][(/\ Received("fulfill")
        /\ db_payout_attempt.status = "RequiresFulfillment"
        /\ answer'.kind \in {"Ok", "Err"})
       => /\ pc' = "idle"
          /\ is_payout_terminal_state(db_payout_attempt'.status)
          /\ is_payout_terminal_state(db_payouts'.status)]_vars


\* C30: a PayoutLink is inserted at most once per payout, only by a creation
\* whose request has payout_link = true, and a creation that fails leaves no
\* link record behind.
C30_PayoutLinkOnlyWithPayout ==
    [][db_payout_link'.rows # db_payout_link.rows
       => /\ Received("create")
          /\ db_payout_link.rows = 0
          /\ db_payout_link'.rows = 1
          /\ result' \in {"Ok", "InFlight"}
          /\ db_payouts'.status # NotFound
          /\ db_payouts'.payout_link_id]_vars


----------------------------------------------------------------------------
(* C31..C40 *)

\* C31: before each transition of a pass the persisted rows are read again, so
\* the gating decision of a sub-flow is taken on the status stored at that
\* moment: a sub-flow calls the connector only when the stored PayoutAttempt
\* status, as another request may have left it since the pass loaded its
\* PayoutData, is one in which that sub-flow acts.
C31_GatingOnStoredStatus ==
    [][(pc \in PassSteps)
       => /\ ("PoRecipient" \in Range(NewCalls)
              => db_payout_attempt.status \in CreationEligibleStatuses)
          /\ ("PoRecipientAccount" \in Range(NewCalls)
              => db_payout_attempt.status = "RequiresVendorAccountCreation")
          /\ ("PoCreate" \in Range(NewCalls)
              => db_payout_attempt.status \in CreationEligibleStatuses)
          /\ ("PoFulfill" \in Range(NewCalls)
              => db_payout_attempt.status = "RequiresFulfillment")]_vars


\* C32: when two requests on one payout id interleave, a persisted Cancelled
\* status is never overwritten by the status write of the other request, and
\* PoCreate is never issued for a payout whose stored status is Cancelled.
C32_CancelledSurvivesInterleaving ==
    [][/\ (db_payout_attempt.status = "Cancelled")
          => /\ db_payout_attempt'.status = "Cancelled"
             /\ "PoCreate" \notin Range(NewCalls)
       /\ (db_payouts.status = "Cancelled")
          => db_payouts'.status = "Cancelled"]_vars


\* every connector operation of a pass occurs at most once among the calls of
\* the request in flight
EachOperationAtMostOnce ==
    \A flow \in {"PoEligibility", "PoRecipient", "PoRecipientAccount",
                 "PoCreate", "PoFulfill"} :
        Cardinality({i \in DOMAIN calls : calls[i] = flow}) <= 1

\* C33: one execution of call_connector_payout issues each connector operation
\* at most once, and, every connector and storage call returning, a pass
\* always ends with a result.
C33_AtMostOnceAndTerminates ==
    /\ []EachOperationAtMostOnce
    /\ [](InPass => <>(pc = "idle" /\ result # "InFlight"))

\* a pass has ended normally after issuing the eligibility, recipient, create
\* and fulfill calls
C33_Witness ==
    /\ pc = "idle"
    /\ result = "Ok"
    /\ calls = <<"PoEligibility", "PoRecipient", "PoCreate", "PoFulfill">>


\* C34: a pass that starts on an attempt whose stored is_eligible is false
\* reaches the eligibility step and fails there with PayoutFailed: no step of
\* it issues a connector call, and the persisted status of the attempt and of
\* the payout stay as they were.
C34_StoredIneligibleFailsPass ==
    [][(/\ pc \in {"call_connector_payout", "eligibility"}
        /\ db_payout_attempt.is_eligible = Some(FALSE))
       => /\ NewCalls = <<>>
          /\ db_payout_attempt'.status = db_payout_attempt.status
          /\ db_payouts'.status = db_payouts.status
          /\ (pc = "call_connector_payout") => pc' = "eligibility"
          /\ (pc = "eligibility")
             => pc' = "idle" /\ result' = "PayoutFailed"]_vars

\* a confirm on an attempt stored as ineligible has failed in the eligibility
\* step of its pass without a connector call
C34_Witness ==
    /\ pc = "idle"
    /\ op = "confirm"
    /\ result = "PayoutFailed"
    /\ calls = <<>>
    /\ db_payout_attempt.is_eligible = Some(FALSE)
    /\ db_payout_attempt.connector # NoConnector
    /\ db_payout_attempt.status = "RequiresCreation"


\* C35: before the first sub-flow connector call of a pass the persisted
\* PayoutAttempt.connector is the connector chosen for the pass: when the
\* attempt had none or another one, the routing update is the first write of
\* call_connector_payout, before any connector call, and when that write
\* fails the pass ends there with no connector call and the row unchanged.
C35_RoutingWrittenBeforeCalls ==
    [][/\ (pc \in PassSteps /\ NewCalls # <<>>)
          => db_payout_attempt.connector = connector_data
       /\ (/\ pc = "call_connector_payout"
           /\ payout_data.payout_attempt.connector # connector_data)
          => /\ NewWrites \in {<<"payout_attempt">>, <<"payout_attempt_error">>}
             /\ NewCalls = <<>>
       /\ (pc = "call_connector_payout" /\ pc' = "eligibility")
          => db_payout_attempt'.connector = connector_data
       /\ (/\ pc = "call_connector_payout"
           /\ NewWrites = <<"payout_attempt_error">>)
          => /\ pc' = "idle"
             /\ result' = "InternalServerError"
             /\ NewCalls = <<>>
             /\ db_payout_attempt' = db_payout_attempt]_vars

\* the routing update of a confirm on an attempt that another connector had
\* served has failed: the pass has ended without a connector call
C35_Witness ==
    /\ pc = "idle"
    /\ op = "confirm"
    /\ result = "InternalServerError"
    /\ writes = <<"payout_attempt_error">>
    /\ calls = <<>>
    /\ db_payout_attempt.connector \in Connectors

\* the routing update of a confirm has replaced the connector that served the
\* attempt before, and the pass has called the connector chosen
C35_Rerouted ==
    /\ pc = "auto_fulfill"
    /\ op = "confirm"
    /\ "PoCreate" \in Range(calls)
    /\ db_payout_attempt.connector = "adyen"
    /\ connector_data = "adyen"


\* C36: create_recipient inserts the process-tracker task before it writes
\* the status. A task is inserted only by the recipient step, on an answer
\* that asks for the next step; when the insertion fails nothing else is
\* written, the rows stay as they were and should_terminate is not set; every
\* status write of the step, failed ones included, finds the task inserted;
\* and should_terminate is set only in a step that inserted a task.
C36_TaskInsertedBeforeStatus ==
    [][/\ (process_tracker' # process_tracker)
          => /\ pc = "recipient"
             /\ process_tracker' = process_tracker + 1
             /\ "PoRecipient" \in Range(NewCalls)
             /\ answer'.kind = "Ok"
             /\ answer'.should_add_next_step_to_process_tracker
       /\ (pc = "recipient" /\ "process_tracker_error" \in Range(NewWrites))
          => /\ NewWrites = <<"process_tracker_error">>
             /\ process_tracker' = process_tracker
             /\ db_payout_attempt' = db_payout_attempt
             /\ db_payouts' = db_payouts
             /\ ~payout_data'.should_terminate
             /\ pc' = "idle"
             /\ result' = "InternalServerError"
       /\ (/\ pc = "recipient"
           /\ Range(NewWrites) \cap {"payout_attempt", "payout_attempt_error",
                                     "payouts", "payouts_error"} # {})
          => process_tracker' = process_tracker + 1
       /\ (payout_data'.should_terminate /\ ~payout_data.should_terminate)
          => /\ pc = "recipient"
             /\ process_tracker' = process_tracker + 1
             /\ NewWrites = <<"payout_attempt", "payouts">>]_vars

\* the insertion of the task has failed after a recipient answer that asked
\* for the next step: no status has been written
C36_Witness ==
    /\ pc = "idle"
    /\ result = "InternalServerError"
    /\ calls # <<>>
    /\ calls[Len(calls)] = "PoRecipient"
    /\ answer.kind = "Ok"
    /\ answer.should_add_next_step_to_process_tracker
    /\ writes = <<"process_tracker_error">>
    /\ process_tracker = 0
    /\ db_payout_attempt.status = "RequiresCreation"

\* the status write after the insertion has failed: the task stays inserted
C36_TaskWithoutStatus ==
    /\ pc = "idle"
    /\ writes = <<"payout_attempt_error">>
    /\ calls # <<>>
    /\ calls[Len(calls)] = "PoRecipient"
    /\ process_tracker = 1
    /\ db_payout_attempt.status = "RequiresCreation"


\* C37: a retrieve request issues PoSync, and nothing else, only when
\* force_sync is true and the status of the attempt qualifies for retrieval;
\* without force_sync it issues no call and changes no stored state; and when
\* the sync call returns a connector error the stored rows stay as they were
\* and the request still answers normally.
C37_RetrieveFrame ==
    [][Received("retrieve")
       => /\ NewCalls \in {<<>>, <<"PoSync">>}
          /\ (NewCalls = <<"PoSync">>)
             => /\ req_force_sync' = Some(TRUE)
                /\ should_call_retrieve(db_payout_attempt.status)
          /\ (req_force_sync' # Some(TRUE))
             => /\ NewCalls = <<>>
                /\ NewWrites = <<>>
                /\ UNCHANGED <<db_payouts, db_payout_attempt, db_payout_link,
                               process_tracker>>
          /\ (answer'.kind = "Err")
             => /\ NewWrites = <<>>
                /\ UNCHANGED <<db_payouts, db_payout_attempt, db_payout_link,
                               process_tracker>>
                /\ result' = "Ok"]_vars

\* a forced retrieve of a Pending payout has got a connector error
C37_Witness ==
    /\ pc = "idle"
    /\ op = "retrieve"
    /\ req_force_sync = Some(TRUE)
    /\ calls = <<"PoSync">>
    /\ answer.kind = "Err"
    /\ result = "Ok"
    /\ db_payout_attempt.status = "Pending"
    /\ db_payout_attempt.error_code = None


\* C38: a cancel request on a payout in a non-terminal status that is not
\* eligible for local cancellation issues exactly one PoCancel call; when the
\* call returns a connector error both rows are persisted as Failed, and when
\* it succeeds without a status the persisted status of the attempt and of
\* the payout stay what they were before the cancel, and do not become
\* Cancelled.
C38_ConnectorCancel ==
    [][(/\ Received("cancel")
        /\ ~is_payout_terminal_state(db_payout_attempt.status)
        /\ ~is_eligible_for_local_payout_cancellation(db_payout_attempt.status))
       => /\ NewCalls = <<"PoCancel">>
          /\ (answer'.kind = "Err")
             => /\ db_payout_attempt'.status = "Failed"
                /\ db_payouts'.status = "Failed"
          /\ (answer'.kind = "Ok" /\ answer'.status = None)
             => /\ db_payout_attempt'.status = db_payout_attempt.status
                /\ db_payouts'.status = db_payouts.status
                /\ db_payout_attempt'.status # "Cancelled"
                /\ db_payouts'.status # "Cancelled"]_vars

\* what the connector cancel keeps: one PoCancel call, Failed on a connector
\* error, and on a success without status the attempt's status, which the
\* payout row is written with
C38_AttemptStatusKept ==
    [][(/\ Received("cancel")
        /\ ~is_payout_terminal_state(db_payout_attempt.status)
        /\ ~is_eligible_for_local_payout_cancellation(db_payout_attempt.status))
       => /\ NewCalls = <<"PoCancel">>
          /\ (answer'.kind = "Err")
             => /\ db_payout_attempt'.status = "Failed"
                /\ db_payouts'.status = "Failed"
          /\ (answer'.kind = "Ok" /\ answer'.status = None)
             => /\ db_payout_attempt'.status = db_payout_attempt.status
                /\ db_payouts'.status = db_payout_attempt.status
                /\ db_payout_attempt'.status # "Cancelled"]_vars

\* a connector cancel of a payout that awaited fulfillment has succeeded
\* without a status
C38_Witness ==
    /\ pc = "idle"
    /\ op = "cancel"
    /\ calls = <<"PoCancel">>
    /\ answer.kind = "Ok"
    /\ answer.status = None
    /\ result = "Ok"
    /\ db_payout_attempt.status = "RequiresFulfillment"
    /\ db_payouts.status = "RequiresFulfillment"


\* C39: in the Retryable branch with retry enabled the multi-connector retry
\* is decided before the single-connector retry, each on what should_call_gsm
\* answers for the attempt as the previous step left it: a multi-connector
\* retry is handed over at most once and first, a single-connector retry at
\* most once and last, each only under its own GSM configuration; and with
\* the multi-connector configuration on, a single-connector retry is handed
\* over only after a multi-connector retry, since an attempt that was
\* retryable after the pass has been given that one first.
C39_MultiBeforeSingle ==
    [][(pc = "auto_fulfill" /\ connector_call_type.type = "Retryable")
       => /\ Len(gsm') <= 2
          /\ \A i \in DOMAIN gsm' :
                /\ gsm'[i].retry = "MultiConnector"
                      => i = 1 /\ conf.gsm_multi_connector
                /\ gsm'[i].retry = "SingleConnector"
                      => /\ i = Len(gsm')
                         /\ conf.gsm_single_connector
                         /\ conf.gsm_multi_connector => i = 2
          /\ (gsm' # <<>>) => result' = "Ok"]_vars

\* with both retries configured, a multi-connector retry has been handed over
\* and the attempt it left was no longer retryable
C39_Witness ==
    /\ pc = "idle"
    /\ result = "Ok"
    /\ conf.gsm_multi_connector
    /\ conf.gsm_single_connector
    /\ Len(gsm) = 1
    /\ gsm[1].retry = "MultiConnector"
    /\ gsm[1].connectors = <<"adyen">>

\* both retries have been handed over, the multi-connector one first
C39_BothRetries ==
    /\ pc = "idle"
    /\ Len(gsm) = 2
    /\ gsm[1].retry = "MultiConnector"
    /\ gsm[2].retry = "SingleConnector"


\* C40: when the Retryable connector sequence is empty, get_next_connector
\* returns an InternalServerError: the request ends there, with no connector
\* call, no write, and the PayoutAttempt and Payout rows as they were.
C40_EmptySequenceRejected ==
    [][(/\ pc = "payouts_core"
        /\ connector_call_type' = [type |-> "Retryable", connectors |-> <<>>])
       => /\ pc' = "idle"
          /\ result' = "InternalServerError"
          /\ connector_data' = NoConnector
          /\ NewCalls = <<>>
          /\ NewWrites = <<>>
          /\ UNCHANGED <<db_payout_attempt, db_payouts, db_payout_link,
                         process_tracker>>]_vars

\* a confirmed payout whose routing resolved to an empty Retryable sequence
\* has been rejected
C40_Witness ==
    /\ pc = "idle"
    /\ result = "InternalServerError"
    /\ connector_call_type = [type |-> "Retryable", connectors |-> <<>>]
    /\ calls = <<>>
    /\ db_payout_attempt.status = "RequiresCreation"
    /\ db_payout_attempt.connector = NoConnector

====
